---- MODULE Spec2Model ----
(***************************************************************************)
(* Workout tracker (streamlit_app.py): the WorkoutLog sheet, the cached    *)
(* load_data frame, the logging form's submission loop, the "last session" *)
(* summary table and the weekly analytics.                                 *)
(*                                                                         *)
(* Conventions.  An optional value is a sequence: <<>> is the missing      *)
(* value (None, NaN, NaT), <<v>> a present one.  A Timestamp is <<n>>, n   *)
(* the day's ordinal (days since 1970-01-01).  The text "mm/dd/yyyy" that  *)
(* strftime produces is <<m, d, y>>: the fields are zero padded and of     *)
(* fixed width, so comparing two such texts as Python strings is comparing *)
(* the tuples lexicographically.  The ISO text "yyyy-mm-dd" of a sheet     *)
(* cell is <<y, m, d>>; a cell that is no date is <<>>.  Weights are whole *)
(* numbers.                                                                *)
(***************************************************************************)
EXTENDS Integers, Sequences, FiniteSets, TLC

VARIABLES
    sheet,       \* rows of the WorkoutLog worksheet, in sheet order
    cache,       \* st.cache_data entry of load_data: [hit, df]
    active_tab,  \* st.session_state["active_tab"]
    date,        \* value of the date_input widget, <<y, m, d>>
    df,          \* the frame the last script run held when it ended
    form,        \* the four slots of the last submitted form
    calls,       \* rows handed to append_row by the last run, in call order
    page,        \* what the last run produced: error, banner, tables, charts
    lastOp       \* the interaction that caused the last run

vars == <<sheet, cache, active_tab, date, df, form, calls, page, lastOp>>

----------------------------------------------------------------------------
(* Bounds of the model *)

MaxRows == 2        \* rows of the initial WorkoutLog sheet
MaxSeed == 1        \* rows of the sheet the app starts on; a submission is
                    \* explored while the sheet holds no more rows than that

----------------------------------------------------------------------------
(* Generic helpers *)

None == <<>>
Some(v) == <<v>>
IsSome(o) == o # <<>>

Range(s) == {s[i] : i \in 1..Len(s)}

RECURSIVE SeqsUpTo(_, _)
SeqsUpTo(S, n) ==
    IF n = 0 THEN {<<>>}
    ELSE LET shorter == SeqsUpTo(S, n - 1)
         IN  shorter \cup {Append(s, x) : s \in {t \in shorter : Len(t) = n - 1}, x \in S}

\* Lexicographic order on tuples of numbers of the same length (the order of
\* Python's str on zero-padded fixed-width texts).
RECURSIVE LexLess(_, _)
LexLess(a, b) ==
    IF a = <<>> \/ b = <<>> THEN FALSE
    ELSE IF Head(a) # Head(b) THEN Head(a) < Head(b)
    ELSE LexLess(Tail(a), Tail(b))

\* sorted(S) for a finite set of numbers.
RECURSIVE SortedInts(_)
SortedInts(S) ==
    IF S = {} THEN <<>>
    ELSE LET m == CHOOSE x \in S : \A y \in S : x <= y
         IN  <<m>> \o SortedInts(S \ {m})

----------------------------------------------------------------------------
(* Calendar arithmetic of datetime / pandas Timestamps *)

DaysFromCivil(y, m, d) ==
    LET yy  == IF m <= 2 THEN y - 1 ELSE y
        era == yy \div 400
        yoe == yy - era * 400
        mp  == (m + 9) % 12
        doy == (153 * mp + 2) \div 5 + d - 1
        doe == yoe * 365 + yoe \div 4 - yoe \div 100 + doy
    IN  era * 146097 + doe - 719468

CivilFromDays(n) ==
    LET z   == n + 719468
        era == z \div 146097
        doe == z - era * 146097
        yoe == (doe - doe \div 1460 + doe \div 36524 - doe \div 146096) \div 365
        doy == doe - (365 * yoe + yoe \div 4 - yoe \div 100)
        mp  == (5 * doy + 2) \div 153
        d   == doy - (153 * mp + 2) \div 5 + 1
        m   == IF mp < 10 THEN mp + 3 ELSE mp - 9
        y   == yoe + era * 400 + (IF m <= 2 THEN 1 ELSE 0)
    IN  <<y, m, d>>

\* date.weekday(): Monday is 0, Sunday is 6 (1970-01-01 was a Thursday).
Weekday(n) == (n + 3) % 7

DayNames == <<"Monday", "Tuesday", "Wednesday", "Thursday", "Friday", "Saturday", "Sunday">>

\* date.strftime("%A")
DayName(ymd) == DayNames[Weekday(DaysFromCivil(ymd[1], ymd[2], ymd[3])) + 1]

----------------------------------------------------------------------------
(* Names *)

FOCUS_GROUPS == <<"Back", "Shoulder", "Chest", "Biceps", "Legs", "Triceps">>

Persons == {"Ninaad", "Vasanta"}

\* str.strip() on the names that occur in the sheet.
Strip(s) ==
    CASE s = "Bench Press " -> "Bench Press"
      [] s = "Legs "        -> "Legs"
      [] OTHER              -> s

\* Position of a name in Python's string order (sorted(), groupby's key sort).
StrRank(s) ==
    CASE s = "Bench Press"   -> 1
      [] s = "Incline Press" -> 2
      [] s = "Squat"         -> 3
      [] OTHER               -> 4

RECURSIVE SortedNames(_)
SortedNames(S) ==
    IF S = {} THEN <<>>
    ELSE LET m == CHOOSE x \in S : \A y \in S : StrRank(x) <= StrRank(y)
         IN  <<m>> \o SortedNames(S \ {m})

----------------------------------------------------------------------------
(* load_data: the Log Normalizer *)

\* pd.to_datetime(cell, errors="coerce") on a sheet cell
ToDatetimeISO(cell) ==
    IF cell = <<>> THEN None ELSE Some(DaysFromCivil(cell[1], cell[2], cell[3]))

\* .dt.strftime("%m/%d/%Y"): NaT gives NaN
StrftimeMDY(ts) ==
    IF ts = None THEN None
    ELSE LET c == CivilFromDays(ts[1]) IN <<c[2], c[3], c[1]>>

NormalizeRow(r) ==
    [r EXCEPT !.Date = StrftimeMDY(ToDatetimeISO(@)),
              !.Exercise = Strip(@),
              !.Focus = Strip(@)]

load_data(rows) ==
    IF rows = <<>> THEN <<>>
    ELSE [i \in 1..Len(rows) |-> NormalizeRow(rows[i])]

\* @st.cache_data with no ttl: the first result is kept and returned again.
CachedLoad(c, rows) == IF c.hit THEN c.df ELSE load_data(rows)

----------------------------------------------------------------------------
(* build_summary_table: the Session Summarizer *)

WeightOf(r, person) == IF person = "Ninaad" THEN r.Ninaad_Weight ELSE r.Vasanta_Weight
RepsOf(r, person) == IF person = "Ninaad" THEN r.Ninaad_Reps ELSE r.Vasanta_Reps

\* The later of two "mm/dd/yyyy" texts under Python's str comparison.
StrGreater(a, b) == LexLess(b, a)

\* Series.max() of an object column of texts and NaN.  With texts and NaN
\* mixed the reduction either skips the NaN or raises TypeError (the NaN is
\* replaced by -inf and compared with a str), depending on the pandas build.
SeriesMax(col, nanRaises) ==
    LET texts == {t \in Range(col) : IsSome(t)}
    IN  IF texts = {} THEN [raised |-> FALSE, val |-> None]
        ELSE IF nanRaises /\ None \in Range(col) THEN [raised |-> TRUE, val |-> None]
        ELSE [raised |-> FALSE,
              val |-> CHOOSE t \in texts : \A u \in texts : ~StrGreater(u, t)]

\* The outcomes Series.max() can have on a frame: both only with a NaN in it.
NanOutcomes(frame) ==
    IF \E i \in 1..Len(frame) : frame[i].Date = None THEN BOOLEAN ELSE {FALSE}

EmptyTable == [columns |-> <<>>, rows |-> <<>>]

\* NaN taken to equal NaN.
OnDateNaN(recent, mx) == SelectSeq(recent, LAMBDA r : r.Date = mx)

\* recent[recent["Date"] == recent["Date"].max()]; NaN equals nothing.
OnDate(recent, mx) == SelectSeq(recent, LAMBDA r : IsSome(mx) /\ r.Date = mx)

\* groupby(["Exercise", "Set"])[...].first(): the first row of each group.
FirstOf(recent, e, s) ==
    recent[CHOOSE i \in 1..Len(recent) :
              /\ recent[i].Exercise = e /\ recent[i].Set = s
              /\ \A j \in 1..(i - 1) : ~(recent[j].Exercise = e /\ recent[j].Set = s)]

\* The exercises of a frame in the order of their first rows.
RECURSIVE FirstSeen(_, _)
FirstSeen(recent, seen) ==
    IF recent = <<>> THEN <<>>
    ELSE IF Head(recent).Exercise \in seen THEN FirstSeen(Tail(recent), seen)
    ELSE <<Head(recent).Exercise>> \o FirstSeen(Tail(recent), seen \cup {Head(recent).Exercise})

PivotIndexUnsorted(recent) == FirstSeen(recent, {})

\* The index of the pivoted frame: groupby and pivot both sort the keys.
PivotIndex(recent) == SortedNames({recent[i].Exercise : i \in 1..Len(recent)})

\* The columns of recent.pivot(index="Exercise", columns="Set"): one block
\* per value column, the Set values ascending inside each block.
PivotColumns(sets) ==
    LET n == Len(sets)
    IN  [j \in 1..(2 * n) |->
            IF j <= n THEN [metric |-> "Weight", set |-> sets[j]]
            ELSE [metric |-> "Reps", set |-> sets[j - n]]]

\* flat_columns: for s in sorted sets, for m in ["Weight", "Reps"]: "Set s m"
FlatColumns(sets) ==
    LET n == Len(sets)
    IN  [j \in 1..(2 * n) |->
            [set |-> sets[(j + 1) \div 2],
             metric |-> IF j % 2 = 1 THEN "Weight" ELSE "Reps"]]

PivotTable(person, recent) ==
    LET keys  == {<<recent[i].Exercise, recent[i].Set>> : i \in 1..Len(recent)}
        names == PivotIndex(recent)
        sets  == SortedInts({k[2] : k \in keys})
        cols  == PivotColumns(sets)
        cell(e, c) ==
            IF <<e, c.set>> \notin keys THEN None
            ELSE IF c.metric = "Weight" THEN Some(WeightOf(FirstOf(recent, e, c.set), person))
            ELSE Some(RepsOf(FirstOf(recent, e, c.set), person))
    IN  [columns |-> FlatColumns(sets),
         rows |-> [i \in 1..Len(names) |->
                     [Exercise |-> names[i],
                      cells |-> [j \in 1..Len(cols) |-> cell(names[i], cols[j])]]]]

\* Result: [error, maxDate, table]
build_summary_table(person, frame, focus, nanRaises) ==
    LET recent == SelectSeq(frame, LAMBDA r : r.Focus = focus)
        mx     == SeriesMax([i \in 1..Len(recent) |-> recent[i].Date], nanRaises)
        onmax  == OnDate(recent, mx.val)
    IN  IF recent = <<>> THEN [error |-> "none", maxDate |-> None, table |-> EmptyTable]
        ELSE IF mx.raised THEN [error |-> "TypeError", maxDate |-> None, table |-> EmptyTable]
        ELSE IF onmax = <<>> THEN [error |-> "none", maxDate |-> mx.val, table |-> EmptyTable]
        ELSE [error |-> "none", maxDate |-> mx.val, table |-> PivotTable(person, onmax)]

\* log_workout, lines 167-176: the header and the two tables under the form.
\* Result: [error, header, summary]
ShowSummary(frame, focus, nanRaises) ==
    LET last_focus == SelectSeq(frame, LAMBDA r : r.Focus = focus)
        mx == SeriesMax([i \in 1..Len(last_focus) |-> last_focus[i].Date], nanRaises)
        tables == [p \in Persons |-> build_summary_table(p, frame, focus, nanRaises).table]
    IN  IF frame = <<>> \/ last_focus = <<>>
        THEN [error |-> "none", header |-> None, summary |-> <<>>]
        ELSE IF mx.raised
        THEN [error |-> "TypeError", header |-> None, summary |-> <<>>]
        ELSE [error |-> "none", header |-> Some([focus |-> focus, maxDate |-> mx.val]),
              summary |-> tables]

----------------------------------------------------------------------------
(* show_analytics: the Analytics Aggregator *)

\* The text read day first; a month above 12 is no date.
ToDatetimeDMY(text) ==
    IF text = None \/ text[2] > 12 THEN None
    ELSE Some(DaysFromCivil(text[3], text[2], text[1]))

\* pd.to_datetime(text, errors="coerce") on the "mm/dd/yyyy" text of the frame
ToDatetimeMDY(text) ==
    IF text = None THEN None ELSE Some(DaysFromCivil(text[3], text[1], text[2]))

\* Weeks that start on Sunday.
WeekStartSunday(n) == n - ((n + 4) % 7)

\* .dt.to_period("W") then Period.start_time: the Monday of the W-SUN week.
WeekStart(n) == n - Weekday(n)

RECURSIVE SumSeq(_)
SumSeq(s) == IF s = <<>> THEN 0 ELSE Head(s) + SumSeq(Tail(s))

MaxOf(S) == CHOOSE x \in S : \A y \in S : y <= x

\* df.groupby(["Date", "Exercise"])[weight_col].max(), one chart per exercise
\* in sorted-name order, the points of a chart in ascending date order.
MaxLifts(frame, person) ==
    LET dated == SelectSeq(frame, LAMBDA r : IsSome(r.Date))
        names == SortedNames({dated[i].Exercise : i \in 1..Len(dated)})
        series(e) ==
            LET days == SortedInts({dated[i].Date[1] : i \in {k \in 1..Len(dated) : dated[k].Exercise = e}})
            IN  [j \in 1..Len(days) |->
                    [Date |-> days[j],
                     weight |-> MaxOf({WeightOf(dated[i], person) :
                                  i \in {k \in 1..Len(dated) :
                                           dated[k].Exercise = e /\ dated[k].Date[1] = days[j]}})]]
    IN  [i \in 1..Len(names) |-> [Exercise |-> names[i], points |-> series(names[i])]]

\* df.groupby("Week")["Volume"].sum(): NaT keys are dropped, keys ascending.
WeeklyVolume(frame) ==
    LET weeks == SortedInts({frame[i].Week[1] : i \in {k \in 1..Len(frame) : IsSome(frame[k].Week)}})
    IN  [j \in 1..Len(weeks) |->
            [Week |-> weeks[j],
             Volume |-> SumSeq([i \in 1..Len(frame) |->
                            IF frame[i].Week = Some(weeks[j]) THEN frame[i].Volume ELSE 0])]]

\* df.groupby("Week")["Date"].nunique()
WorkoutDays(frame) ==
    LET weeks == SortedInts({frame[i].Week[1] : i \in {k \in 1..Len(frame) : IsSome(frame[k].Week)}})
    IN  [j \in 1..Len(weeks) |->
            [Week |-> weeks[j],
             Days |-> Cardinality({frame[i].Date : i \in {k \in 1..Len(frame) :
                                      frame[k].Week = Some(weeks[j])}})]]

NoCharts == [max_lifts |-> <<>>, weekly_volume |-> <<>>, workout_days |-> <<>>]

\* Line 180: df["Date"] = pd.to_datetime(df["Date"], errors="coerce")
WithDates(frame) == [i \in 1..Len(frame) |-> [frame[i] EXCEPT !.Date = ToDatetimeMDY(@)]]

\* Line 192: df["Volume"] = df[weight_col] * df[reps_col]
WithVolume(frame, person) ==
    [i \in 1..Len(frame) |->
        frame[i] @@ [Volume |-> WeightOf(frame[i], person) * RepsOf(frame[i], person)]]

\* Line 193: df["Week"] = df["Date"].dt.to_period("W").apply(lambda r: r.start_time)
WithWeek(frame) ==
    [i \in 1..Len(frame) |->
        frame[i] @@ [Week |-> IF IsSome(frame[i].Date)
                              THEN Some(WeekStart(frame[i].Date[1])) ELSE None]]

\* Result: [error, df, charts]; df is the caller's frame as the call leaves it.
\* An empty frame has no columns (KeyError).  On a NaT the lambda of line 193
\* reads NaT.start_time, which either raises AttributeError or is NaT,
\* depending on the pandas build.
show_analytics(frame, person, natRaises) ==
    LET d1 == WithDates(frame)
        d2 == WithVolume(d1, person)
        d3 == WithWeek(d2)
        lifts == MaxLifts(d1, person)
    IN  IF frame = <<>> THEN [error |-> "KeyError", df |-> frame, charts |-> NoCharts]
        ELSE IF natRaises /\ \E i \in 1..Len(d2) : d2[i].Date = None
        THEN [error |-> "AttributeError", df |-> d2,
              charts |-> [NoCharts EXCEPT !.max_lifts = lifts]]
        ELSE [error |-> "none", df |-> d3,
              charts |-> [max_lifts |-> lifts,
                          weekly_volume |-> WeeklyVolume(d3),
                          workout_days |-> WorkoutDays(d3)]]

----------------------------------------------------------------------------
(* log_workout: the date's default focus and the submission loop *)

\* Lines 82-89: the dict lookup with .get(day_name, "")
DefaultFocus(ymd) ==
    LET day_name == DayName(ymd)
    IN  CASE day_name = "Monday"    -> "Back"
          [] day_name = "Tuesday"   -> "Shoulder"
          [] day_name = "Wednesday" -> "Chest"
          [] day_name = "Thursday"  -> "Biceps"
          [] day_name = "Friday"    -> "Legs"
          [] day_name = "Saturday"  -> "Triceps"
          [] OTHER                  -> ""

\* Line 91: FOCUS_GROUPS.index(default_focus) raises ValueError on a miss.
FocusIndexRaises(ymd) == DefaultFocus(ymd) \notin Range(FOCUS_GROUPS)

\* Line 76
safe(x) == IF x = None THEN 0 ELSE x[1]

SlotFields(slot) == <<slot.nw, slot.nr, slot.vw, slot.vr>>

\* A slot counts as soon as a field is filled in, zero included.
AnyPresent(slot) == \E k \in 1..4 : SlotFields(slot)[k] # None

\* Line 140: any(x is not None and x > 0 for x in [nw, nr, vw, vr])
AnyPositive(slot) ==
    \E k \in 1..4 : SlotFields(slot)[k] # None /\ SlotFields(slot)[k][1] > 0

\* Lines 141-144: the row handed to append_row for slot i
SlotRow(ymd, exercise, focus, i, slot) ==
    [Date |-> ymd, Exercise |-> exercise, Set |-> i, Focus |-> focus,
     Ninaad_Weight |-> safe(slot.nw), Ninaad_Reps |-> safe(slot.nr),
     Vasanta_Weight |-> safe(slot.vw), Vasanta_Reps |-> safe(slot.vr)]

\* The row reaches the sheet although the call raises.
append_row_written(acc, row, fails) ==
    [acc EXCEPT !.calls = Append(@, row), !.rows = Append(@, row), !.raised = fails]

\* Lines 49-51: ws.append_row(row); a call that fails raises and writes nothing.
append_row(acc, row, fails) ==
    IF fails THEN [acc EXCEPT !.calls = Append(@, row), !.raised = TRUE]
    ELSE [acc EXCEPT !.calls = Append(@, row), !.rows = Append(@, row)]

\* Lines 136-145: for i in range(4).  acc = [count, calls, rows, raised]: the
\* counter, the append_row calls made, the sheet, and whether a call raised.
\* The call for slot failSlot (0: none) fails in the gateway; the exception
\* leaves the loop.
RECURSIVE SubmitLoop(_, _, _, _, _, _, _)
SubmitLoop(i, acc, slots, ymd, exercise, focus, failSlot) ==
    IF i > 4 \/ acc.raised THEN acc
    ELSE IF ~AnyPositive(slots[i])
    THEN SubmitLoop(i + 1, acc, slots, ymd, exercise, focus, failSlot)
    ELSE LET done == append_row(acc, SlotRow(ymd, exercise, focus, i, slots[i]), i = failSlot)
         IN  IF done.raised THEN done
             ELSE SubmitLoop(i + 1, [done EXCEPT !.count = @ + 1],
                             slots, ymd, exercise, focus, failSlot)

----------------------------------------------------------------------------
(* Inputs *)

\* Dates the date_input can hold: one whole week, Sunday 2024-06-02 to
\* Saturday 2024-06-08.
AppDates == {<<2024, 6, d>> : d \in 2..8}

\* Values of the two selectboxes the submissions are drawn from.
FormChoices ==
    {[focus |-> "Chest", exercise |-> "Bench Press"],
     [focus |-> "Legs", exercise |-> "Squat"]}

\* One slot of the form: four number_inputs, each empty (None) or a number >= 0.
SlotChoices ==
    {[nw |-> None, nr |-> None, vw |-> None, vr |-> None],
     [nw |-> Some(0), nr |-> Some(0), vw |-> None, vr |-> Some(0)],
     [nw |-> Some(60), nr |-> Some(8), vw |-> None, vr |-> Some(0)]}

EmptyForm == [i \in 1..4 |-> [nw |-> None, nr |-> None, vw |-> None, vr |-> None]]

\* The rows already in the sheet when the app starts: Wednesday 2024-05-29.
SeedRow(i) ==
    [Date |-> <<2024, 5, 29>>, Exercise |-> "Bench Press ", Set |-> i, Focus |-> "Chest",
     Ninaad_Weight |-> 60, Ninaad_Reps |-> 8, Vasanta_Weight |-> 50, Vasanta_Reps |-> 10]

StartSheet == [i \in 1..MaxSeed |-> SeedRow(i)]

\* Sheet rows the pipeline is run on: Sunday 2023-12-31, Monday 2024-01-01,
\* Sunday 2024-01-07 and a cell that is no date; two Chest exercises and one
\* Legs exercise; sets 1 and 2, set 1 with two different loads.
RawDates == {<<2023, 12, 31>>, <<2024, 1, 1>>, <<2024, 1, 7>>, <<>>}

Loads ==
    {[Set |-> 1, Ninaad_Weight |-> 60, Ninaad_Reps |-> 8, Vasanta_Weight |-> 50, Vasanta_Reps |-> 10],
     [Set |-> 2, Ninaad_Weight |-> 65, Ninaad_Reps |-> 6, Vasanta_Weight |-> 55, Vasanta_Reps |-> 8],
     [Set |-> 1, Ninaad_Weight |-> 70, Ninaad_Reps |-> 5, Vasanta_Weight |-> 45, Vasanta_Reps |-> 12]}

RawNames ==
    {[Exercise |-> "Bench Press ", Focus |-> "Chest", loads |-> Loads],
     [Exercise |-> "Incline Press", Focus |-> "Chest",
      loads |-> {l \in Loads : l.Ninaad_Weight < 70}],
     [Exercise |-> "Squat", Focus |-> "Legs ",
      loads |-> {l \in Loads : l.Set = 1 /\ l.Ninaad_Weight < 70}]}

RawRows ==
    {[Date |-> d, Exercise |-> n.Exercise, Set |-> l.Set, Focus |-> n.Focus,
      Ninaad_Weight |-> l.Ninaad_Weight, Ninaad_Reps |-> l.Ninaad_Reps,
      Vasanta_Weight |-> l.Vasanta_Weight, Vasanta_Reps |-> l.Vasanta_Reps] :
        <<d, n, l>> \in {t \in RawDates \X RawNames \X Loads : t[3] \in t[2].loads}}

----------------------------------------------------------------------------
(* Pages *)

BlankPage ==
    [error |-> "none", form_shown |-> FALSE, banner |-> None, header |-> None,
     summary |-> <<>>, charts |-> NoCharts]

\* log_workout without a submission: lines 79-102 and 167-176.
LoggerPage(frame, ymd, focus, nanRaises) ==
    IF FocusIndexRaises(ymd) THEN [BlankPage EXCEPT !.error = "ValueError"]
    ELSE LET s == ShowSummary(frame, focus, nanRaises)
         IN  [BlankPage EXCEPT !.error = s.error, !.form_shown = TRUE,
                               !.header = s.header, !.summary = s.summary]

AnalyticsPage(res) == [BlankPage EXCEPT !.error = res.error, !.charts = res.charts]

----------------------------------------------------------------------------
(* The app: one action per interaction, each a whole script run of main() *)

Init ==
    /\ sheet = StartSheet
    /\ cache = [hit |-> FALSE, df |-> <<>>]
    /\ active_tab = "logger"
    /\ date \in AppDates
    /\ df = <<>>
    /\ form = EmptyForm
    /\ calls = <<>>
    /\ page = BlankPage
    /\ lastOp = "start"

\* A run that shows the logger with the focus selectbox at its default.
RunLogger(op, ymd) ==
    LET frame == CachedLoad(cache, sheet)
    IN  \E nanRaises \in NanOutcomes(frame) :
            /\ cache' = [hit |-> TRUE, df |-> frame]
            /\ active_tab' = "logger"
            /\ date' = ymd
            /\ df' = frame
            /\ page' = LoggerPage(frame, ymd, DefaultFocus(ymd), nanRaises)
            /\ form' = EmptyForm
            /\ calls' = <<>>
            /\ lastOp' = op
            /\ UNCHANGED sheet

\* A run that shows the analytics (main, line 221: person="Ninaad").
RunAnalytics(op) ==
    \E natRaises \in NanOutcomes(CachedLoad(cache, sheet)) :
        LET frame == CachedLoad(cache, sheet)
            res   == show_analytics(frame, "Ninaad", natRaises)
        IN  /\ cache' = [hit |-> TRUE, df |-> frame]
            /\ active_tab' = "analytics"
            /\ df' = res.df
            /\ page' = AnalyticsPage(res)
            /\ form' = EmptyForm
            /\ calls' = <<>>
            /\ lastOp' = op
            /\ UNCHANGED <<sheet, date>>

\* The first run of a session.
Open == lastOp = "start" /\ RunLogger("open", date)

\* The user picks a date in the date_input.
SelectDate == lastOp # "start" /\ active_tab = "logger" /\ \E d \in AppDates : RunLogger("select_date", d)

\* Sidebar buttons, lines 205-208.
GoToLogger == lastOp # "start" /\ RunLogger("go_logger", date)

GoToAnalytics == lastOp # "start" /\ RunAnalytics("go_analytics")

\* The "View Analytics" button of the logger, lines 214-217.
ViewAnalytics == lastOp # "start" /\ active_tab = "logger" /\ RunAnalytics("view_analytics")

\* "Add to log": lines 135-153, then the run st.rerun() starts.
Submit ==
    /\ active_tab = "logger"
    /\ page.form_shown
    /\ Len(sheet) <= MaxSeed
    /\ \E slots \in [1..4 -> SlotChoices], choice \in FormChoices, failSlot \in 0..4 :
        LET frame == CachedLoad(cache, sheet)
            acc   == SubmitLoop(1, [count |-> 0, calls |-> <<>>, rows |-> sheet, raised |-> FALSE],
                                slots, date, choice.exercise, choice.focus, failSlot)
            cache1 == [hit |-> TRUE, df |-> frame]
            reread == CachedLoad(cache1, acc.rows)
        IN  /\ sheet' = acc.rows
            /\ calls' = acc.calls
            /\ form' = slots
            /\ cache' = cache1
            /\ lastOp' = "submit"
            /\ UNCHANGED <<active_tab, date>>
            /\ IF acc.raised
               THEN /\ df' = frame
                    /\ page' = [BlankPage EXCEPT !.error = "APIError", !.form_shown = TRUE]
               ELSE /\ df' = reread
                    /\ \E nanRaises \in NanOutcomes(reread) :
                          page' = [LoggerPage(reread, date, choice.focus, nanRaises)
                                     EXCEPT !.banner = IF acc.count > 0 THEN Some(acc.count) ELSE None]

Next == Open \/ SelectDate \/ GoToLogger \/ GoToAnalytics \/ ViewAnalytics \/ Submit

Spec == Init /\ [][Next]_vars

----------------------------------------------------------------------------
(* The pipeline on its own: a sheet drawn from RawRows, then load_data,     *)
(* the summary and the analytics applied to it                              *)

InitData ==
    /\ sheet \in SeqsUpTo(RawRows, MaxRows)
    /\ cache = [hit |-> FALSE, df |-> <<>>]
    /\ active_tab = "logger"
    /\ date = <<2024, 1, 8>>
    /\ df = <<>>
    /\ form = EmptyForm
    /\ calls = <<>>
    /\ page = BlankPage
    /\ lastOp = "start"

DataLoad ==
    /\ ~cache.hit
    /\ cache' = [hit |-> TRUE, df |-> load_data(sheet)]
    /\ df' = load_data(sheet)
    /\ lastOp' = "load"
    /\ UNCHANGED <<sheet, active_tab, date, form, calls, page>>

DataSummary ==
    /\ cache.hit
    /\ \E focus \in {"Chest", "Legs"}, nanRaises \in NanOutcomes(cache.df) :
        LET s == ShowSummary(cache.df, focus, nanRaises)
        IN  /\ page' = [BlankPage EXCEPT !.error = s.error, !.header = s.header,
                                         !.summary = s.summary]
            /\ df' = cache.df
            /\ lastOp' = "summary"
            /\ active_tab' = "logger"
            /\ UNCHANGED <<sheet, cache, date, form, calls>>

DataAnalytics ==
    /\ cache.hit
    /\ \E natRaises \in NanOutcomes(cache.df) :
        LET res == show_analytics(cache.df, "Ninaad", natRaises)
        IN  /\ page' = AnalyticsPage(res)
            /\ df' = res.df
            /\ lastOp' = "analytics"
            /\ active_tab' = "analytics"
            /\ UNCHANGED <<sheet, cache, date, form, calls>>

NextData == DataLoad \/ DataSummary \/ DataAnalytics

DataSpec == InitData /\ [][NextData]_vars

----------------------------------------------------------------------------
(* Properties of the submission (checked under Spec) *)

SlotFieldNames == {"nw", "nr", "vw", "vr"}

\* The slots of the submitted form with a field that is present and > 0.
QualifyingSlots ==
    {i \in 1..4 : \E f \in SlotFieldNames : form[i][f] # None /\ form[i][f][1] > 0}

SubmitFailed == lastOp = "submit" /\ page.error = "APIError"
SubmitDone == lastOp = "submit" /\ page.error # "APIError"

\* C1: a submission appends exactly its qualifying slots (a field present and
\* strictly positive), in increasing slot position, one append_row call per
\* slot with Set = the slot's 1-based position; a slot that is all empty or
\* zero causes no call.  Calls made before a gateway failure follow the same
\* order.
C1_AppendsQualifyingSlots ==
    LET q == SortedInts(QualifyingSlots)
    IN  /\ lastOp = "submit" =>
              /\ Len(calls) <= Len(q)
              /\ \A j \in 1..Len(calls) : calls[j].Set = q[j]
        /\ SubmitDone =>
              /\ Len(calls) = Len(q)
              /\ sheet = StartSheet \o calls

\* Scenario B: only slot 2 is filled in, slot 1 holds zeros.
C1_Witness ==
    /\ SubmitDone
    /\ QualifyingSlots = {2}
    /\ form[1].nw = Some(0)
    /\ form[3].nw = None
    /\ Len(calls) = 1 /\ calls[1].Set = 2
    /\ Len(sheet) = MaxSeed + 1

\* C2: after a submission that appended rows (count > 0) the next load_data
\* read returns the log with those rows in it, never the frame cached before
\* the submission.
C2_NextReadSeesAppend ==
    (SubmitDone /\ page.banner # None) =>
        /\ Len(df) = Len(sheet)
        /\ \A j \in 1..Len(calls) :
              \E i \in 1..Len(df) : df[i].Set = calls[j].Set /\ df[i].Exercise = calls[j].Exercise
                                    /\ df[i].Date = <<calls[j].Date[2], calls[j].Date[3], calls[j].Date[1]>>

\* C3 as stated: when the append for slot k fails, the rows before k stay in
\* the sheet, nothing after k is attempted, and the count of the rows appended
\* before the failure is reported together with the failure.
C3_ReportsPartialCount ==
    (SubmitFailed /\ Len(calls) > 1) =>
        /\ sheet = StartSheet \o SubSeq(calls, 1, Len(calls) - 1)
        /\ page.banner = Some(Len(calls) - 1)

\* C3 as amended: when the append for slot k fails, the rows before k stay in
\* the sheet, the row of k is not in it, nothing after k is attempted, and the
\* failure reaches the caller as the exception; no count is reported.
C3_FailureKeepsPrefix ==
    SubmitFailed =>
        LET q == SortedInts(QualifyingSlots)
        IN  /\ calls # <<>>
            /\ Len(calls) <= Len(q)
            /\ \A j \in 1..Len(calls) : calls[j].Set = q[j]
            /\ sheet = StartSheet \o SubSeq(calls, 1, Len(calls) - 1)
            /\ page.banner = None

\* Scenario D: four qualifying slots, the append for slot 3 fails.
C3_Witness ==
    /\ SubmitFailed
    /\ QualifyingSlots = 1..4
    /\ Len(calls) = 3 /\ calls[3].Set = 3
    /\ Len(sheet) = MaxSeed + 2

\* C10: on every selectable date, Sunday included, the default focus derived
\* from the weekday is one of the six FOCUS_GROUPS and the logging form is
\* reached without an error.
C10_DefaultFocusInGroups ==
    lastOp \in {"open", "select_date", "go_logger"} =>
        /\ DefaultFocus(date) \in Range(FOCUS_GROUPS)
        /\ page.error # "ValueError"
        /\ page.form_shown

----------------------------------------------------------------------------
(* Properties of the summary and the analytics (checked under DataSpec),   *)
(* stated on the rows of the sheet                                         *)

\* Rows of the sheet whose Date cell is a date.
Dated == {i \in 1..Len(sheet) : sheet[i].Date # <<>>}

\* The day of a dated row, as a day number.
SheetOrd(i) == DaysFromCivil(sheet[i].Date[1], sheet[i].Date[2], sheet[i].Date[3])

\* The "mm/dd/yyyy" text of a date <<y, m, d>>.
DateText(ymd) == <<ymd[2], ymd[3], ymd[1]>>

FocusRows(focus) == {i \in 1..Len(sheet) : Strip(sheet[i].Focus) = focus}

SummaryShown == lastOp = "summary" /\ page.header # None
ShownFocus == page.header[1].focus
ShownDate == page.header[1].maxDate
TableRows(p) == page.summary[p].rows

\* Rows of the shown focus group dated the day the summary shows.
RowsOnShownDate ==
    {i \in FocusRows(ShownFocus) \cap Dated : DateText(sheet[i].Date) = ShownDate}

FirstIdx(e) ==
    CHOOSE i \in FocusRows(ShownFocus) :
        /\ Strip(sheet[i].Exercise) = e
        /\ \A j \in FocusRows(ShownFocus) : Strip(sheet[j].Exercise) = e => i <= j

\* C4: the summary is restricted to the chronologically latest parseable date
\* among the records of the focus group, and every row of it is for an
\* exercise with a record of that focus group on that date, across months and
\* years.
C4_SummaryOnLatestDate ==
    SummaryShown =>
        LET idx == FocusRows(ShownFocus) \cap Dated
        IN  idx # {} =>
              LET last == CHOOSE i \in idx : \A j \in idx : SheetOrd(j) <= SheetOrd(i)
              IN  /\ ShownDate = DateText(sheet[last].Date)
                  /\ \A p \in Persons : \A k \in 1..Len(TableRows(p)) :
                        \E i \in idx : /\ SheetOrd(i) = SheetOrd(last)
                                       /\ Strip(sheet[i].Exercise) = TableRows(p)[k].Exercise

\* C5: for every exercise e and set k on the summary's date, the cell of row e
\* under "Set k Weight" is the athlete's weight, and the cell under
\* "Set k Reps" the athlete's reps, of the first record with (e, k) on that
\* date.
C5_CellsUnderTheirLabels ==
    SummaryShown =>
        \A p \in Persons : \A k \in 1..Len(TableRows(p)) :
            \A j \in 1..Len(page.summary[p].columns) :
                LET row  == TableRows(p)[k]
                    col  == page.summary[p].columns[j]
                    hits == {i \in RowsOnShownDate :
                               Strip(sheet[i].Exercise) = row.Exercise /\ sheet[i].Set = col.set}
                    first == CHOOSE i \in hits : \A h \in hits : i <= h
                IN  hits # {} =>
                        row.cells[j] = Some(IF col.metric = "Weight"
                                            THEN WeightOf(sheet[first], p)
                                            ELSE RepsOf(sheet[first], p))

\* One row per distinct exercise on the summary's date.
OneRowPerExercise(p) ==
    /\ {TableRows(p)[k].Exercise : k \in 1..Len(TableRows(p))}
         = {Strip(sheet[i].Exercise) : i \in RowsOnShownDate}
    /\ \A k1, k2 \in 1..Len(TableRows(p)) :
          TableRows(p)[k1].Exercise = TableRows(p)[k2].Exercise => k1 = k2

\* C9 as stated: the rows of a summary are in the order in which their
\* exercises first occur among the records of the focus group, one row per
\* distinct exercise on the summary's date.
C9_RowsInFirstOccurrenceOrder ==
    (SummaryShown /\ ShownDate # None) =>
        \A p \in Persons :
            /\ OneRowPerExercise(p)
            /\ \A k1, k2 \in 1..Len(TableRows(p)) :
                  k1 < k2 => FirstIdx(TableRows(p)[k1].Exercise) < FirstIdx(TableRows(p)[k2].Exercise)

\* C9 as amended: the rows of a summary are in ascending order of the exercise
\* name (Python's string order), one row per distinct exercise on the
\* summary's date, whatever the order of the records.
C9_RowsInNameOrder ==
    (SummaryShown /\ ShownDate # None) =>
        \A p \in Persons :
            /\ OneRowPerExercise(p)
            /\ \A k1, k2 \in 1..Len(TableRows(p)) :
                  k1 < k2 => StrRank(TableRows(p)[k1].Exercise) < StrRank(TableRows(p)[k2].Exercise)

\* Two exercises whose records come in the opposite of their name order.
C9_Witness ==
    /\ SummaryShown /\ ShownDate # None
    /\ Len(TableRows("Ninaad")) = 2
    /\ FirstIdx(TableRows("Ninaad")[1].Exercise) > FirstIdx(TableRows("Ninaad")[2].Exercise)

AnalyticsDone == lastOp = "analytics" /\ page.error = "none"

\* The Monday on or before day n, counted from Monday 2024-01-01.
MondayOf(n) == n - ((n - DaysFromCivil(2024, 1, 1)) % 7)

RECURSIVE VolumeOf(_)
VolumeOf(S) ==
    IF S = {} THEN 0
    ELSE LET i == CHOOSE x \in S : TRUE
         IN  sheet[i].Ninaad_Weight * sheet[i].Ninaad_Reps + VolumeOf(S \ {i})

\* C6: weekly volume has one bucket per Monday-to-Sunday week that holds a
\* dated record, keyed by the week's Monday (so a Monday and the Sunday before
\* it are in different buckets and two days of one week in the same), each
\* bucket's total is the sum of weight x reps of its records, and the buckets
\* are in ascending order of week start.
C6_WeeklyVolumeByMonday ==
    AnalyticsDone =>
        LET wv == page.charts.weekly_volume
        IN  /\ {wv[j].Week : j \in 1..Len(wv)} = {MondayOf(SheetOrd(i)) : i \in Dated}
            /\ \A j, k \in 1..Len(wv) : j < k => wv[j].Week < wv[k].Week
            /\ \A j \in 1..Len(wv) :
                  wv[j].Volume = VolumeOf({i \in Dated : MondayOf(SheetOrd(i)) = wv[j].Week})

\* Scenario C: (60, 8) on Monday 2024-01-01 and (65, 6) on Sunday 2024-01-07
\* give one bucket of 870.
C6_Witness ==
    /\ AnalyticsDone
    /\ Len(sheet) = 2
    /\ sheet[1].Date = <<2024, 1, 1>> /\ sheet[2].Date = <<2024, 1, 7>>
    /\ Len(page.charts.weekly_volume) = 1
    /\ page.charts.weekly_volume[1].Volume = 870
    /\ page.charts.weekly_volume[1].Week = DaysFromCivil(2024, 1, 1)

\* C7: a record whose date cannot be parsed is kept by load_data (one record
\* per sheet row, in sheet order), but no summary row or summary date comes
\* from it and no weekly volume or weekly frequency bucket counts it.
C7_UnparsedKeptButNotUsed ==
    /\ cache.hit =>
          /\ Len(cache.df) = Len(sheet)
          /\ \A i \in 1..Len(sheet) :
                /\ cache.df[i].Set = sheet[i].Set
                /\ cache.df[i].Exercise = Strip(sheet[i].Exercise)
                /\ cache.df[i].Ninaad_Weight = sheet[i].Ninaad_Weight
                /\ cache.df[i].Vasanta_Reps = sheet[i].Vasanta_Reps
                /\ (cache.df[i].Date = None) = (i \notin Dated)
    /\ SummaryShown =>
          /\ ShownDate # None => RowsOnShownDate # {}
          /\ \A p \in Persons : \A k \in 1..Len(TableRows(p)) :
                \E i \in RowsOnShownDate : Strip(sheet[i].Exercise) = TableRows(p)[k].Exercise
    /\ AnalyticsDone =>
          LET wv == page.charts.weekly_volume
              wd == page.charts.workout_days
          IN  /\ SumSeq([j \in 1..Len(wv) |-> wv[j].Volume]) = VolumeOf(Dated)
              /\ {wd[j].Week : j \in 1..Len(wd)} = {MondayOf(SheetOrd(i)) : i \in Dated}
              /\ \A j \in 1..Len(wd) :
                    wd[j].Days = Cardinality({SheetOrd(i) : i \in
                                    {x \in Dated : MondayOf(SheetOrd(x)) = wd[j].Week}})

\* A summary shown for a focus group that has a record with no date.
C7_Witness ==
    /\ SummaryShown /\ ShownDate # None
    /\ \E i \in FocusRows(ShownFocus) : i \notin Dated
    /\ Len(TableRows("Ninaad")) = 1

\* C8 as stated: show_analytics leaves the frame it is given with the same
\* columns and values, and performs no store read or append.
C8_AnalyticsReadOnly ==
    lastOp = "analytics" => (df = cache.df /\ calls = <<>>)

\* C8 as amended: show_analytics performs no store read or append and keeps
\* the rows, their order and every column but Date; in the frame it is given
\* it replaces each Date text by the timestamp of the same day (NaT for NaN)
\* and adds the columns Volume (weight x reps) and, unless the week step
\* raises, Week.  An empty frame is left as it is.
C8_AnalyticsChangesOnlyDates ==
    lastOp = "analytics" =>
        /\ calls = <<>>
        /\ Len(df) = Len(cache.df)
        /\ \A i \in 1..Len(df) :
              /\ \A c \in DOMAIN cache.df[i] \ {"Date"} : df[i][c] = cache.df[i][c]
              /\ DOMAIN df[i] = DOMAIN cache.df[i] \cup {"Volume"}
                                  \cup (IF page.error = "none" THEN {"Week"} ELSE {})
              /\ df[i].Volume = cache.df[i].Ninaad_Weight * cache.df[i].Ninaad_Reps
              /\ IF cache.df[i].Date = None THEN df[i].Date = None
                 ELSE /\ df[i].Date # None
                      /\ DateText(CivilFromDays(df[i].Date[1])) = cache.df[i].Date

C8_Witness ==
    /\ AnalyticsDone
    /\ Len(df) = 2
    /\ df[1].Date # None
    /\ "Week" \in DOMAIN df[1]
    /\ df[2].Volume = 390

====
